---- MODULE Spec2Model ----
(***************************************************************************)
(* SpeakEasy-AI: the REST server around the chatbot (server.py), the model *)
(* lifecycle (trainer/model/model_utils.py) and the vocabulary / token-id  *)
(* pipeline (trainer/data/data_utils.py), as state machines.               *)
(*                                                                         *)
(*   Spec        server.py: the initialization task and request handlers   *)
(*   SpecModel   model_utils.py: create_model, statement by statement      *)
(*   SpecVocab   data_utils.py: create_vocabulary, initialize_vocabulary   *)
(*   SpecEncode  data_utils.py: sentence_to_token_ids on a loaded vocab    *)
(*   SpecIds     data_utils.py: data_to_token_ids                          *)
(*   SpecRecover data_utils.py: the two builders with interrupted writes   *)
(***************************************************************************)
EXTENDS Integers, Sequences, FiniteSets, TLC

VARIABLES
    \* ---- server.py
    mode,          \* "main" (python server.py) or "imported" (WSGI container)
    Marvin,        \* 0 = None, n > 0 = the n-th ChatBot instance
    initPc,        \* position of initialize(): "start", "constructing", "done", "failed"
    constructed,   \* number of ChatBot() calls made so far
    constructors,  \* who made them: "init" (initialize) or "handler"
    hpc,           \* per handler: "idle", "check", "try", "respond", "except", "done"
    hreq,          \* per handler: the request being handled
    hready,        \* per handler: what `not Marvin` on line 51 saw (TRUE = loaded)
    hstatus,       \* per handler: HTTP status of the answer, 0 = none yet
    hcalled,       \* per handler: Marvin.respond was called for this request
    hescaped,      \* per handler: a non-HTTP exception left generate_response
    received,      \* number of POST /message requests received so far
    failures,      \* number of requests answered 500 so far
    \* ---- model_utils.py
    restore_model, \* params.restore_model: "" / "valid" / "invalid"
    train_ckpt,    \* checkpoint state of params.train_dir: "none" / "stale" / "valid"
    use_buckets,   \* params.buckets
    forward_only,  \* create_model's forward_only argument
    cmPc,          \* position inside create_model
    cmModel,       \* the Seq2SeqModel built: its batching mode and forward_only
    ckpt,          \* the local `ckpt`
    cmWriter,      \* the summary FileWriter was opened
    cmParams,      \* where the session's parameters come from
    cmAttempts,    \* the sources create_model tried to load parameters from
    cmResult,      \* "none" / "returned" / "raised"
    \* ---- data_utils.py
    dataFile,      \* the corpus at data_path: Absent or a sequence of characters
    vocabFile,     \* the file at vocabulary_path: Absent or a sequence of lines
    completeFile,  \* the file at vocabulary_path + 'complete'
    idsFile,       \* the file at target_path: Absent or a sequence of lines
    corpusReads,   \* how many times create_vocabulary opened the corpus
    cvOutcome,     \* outcome of the latest create_vocabulary call
    cvMax,         \* max_vocabulary_size of the call that wrote vocabFile
    cvNorm,        \* normalize_digits of the call that wrote vocabFile
    loaded,        \* initialize_vocabulary has returned
    vocab,         \* the loaded token -> id mapping
    rev_vocab,     \* the loaded id -> token list
    encArgs,       \* the latest sentence_to_token_ids call: sentence and flag
    encResult,     \* what it returned
    idsOutcome,    \* outcome of the latest data_to_token_ids call
    idsNorm,       \* normalize_digits of the call that wrote idsFile
    vocabulary_size, \* prepare_data's vocabulary_size (SpecRecover)
    lastRun        \* SpecRecover: the latest builder run, whether it was cut short,
                   \* and the number of runs cut short so far

serverVars == <<mode, Marvin, initPc, constructed, constructors, hpc, hreq, hready,
                hstatus, hcalled, hescaped, received, failures>>
modelVars == <<restore_model, train_ckpt, use_buckets, forward_only, cmPc, cmModel, ckpt, cmWriter,
               cmParams, cmAttempts, cmResult>>
fileVars == <<dataFile, vocabFile, completeFile, idsFile>>
buildVars == <<corpusReads, cvOutcome, cvMax, cvNorm>>
loadVars == <<loaded, vocab, rev_vocab>>
encVars == <<encArgs, encResult>>
idsVars == <<idsOutcome, idsNorm>>
recoverVars == <<vocabulary_size, lastRun>>
dataVars == <<fileVars, buildVars, loadVars, encVars, idsVars, recoverVars>>
vars == <<serverVars, modelVars, dataVars>>

(***************************************************************************)
(* Bounds                                                                  *)
(***************************************************************************)
NumHandlers == 2      \* request handlers the container may run at once
MaxRequests == 3      \* POST /message requests received in one run
MaxFileLen == 2       \* characters in the corpus file
MaxSentenceLen == 2   \* characters in a sentence given to sentence_to_token_ids
MaxVocabSize == 5     \* largest max_vocabulary_size tried
MaxCuts == 2          \* builder runs cut short before the final run

Handlers == 1..NumHandlers

(***************************************************************************)
(* server.py                                                               *)
(***************************************************************************)
\* The bodies POST /message is given: no JSON or no 'message' key, a message
\* Marvin.respond answers, a message Marvin.respond raises on.
Requests == {"no_message", "good", "malformed"}

\* Marvin.respond (trainer/model/chat_bot.py): raises on malformed input,
\* returns the reply otherwise.
RespondRaises(req) == req = "malformed"

ServerInit ==
    /\ mode \in {"main", "imported"}
    /\ Marvin = 0
    /\ initPc = "start"
    /\ constructed = 0
    /\ constructors = {}
    /\ hpc = [h \in Handlers |-> "idle"]
    /\ hreq = [h \in Handlers |-> "none"]
    /\ hready = [h \in Handlers |-> FALSE]
    /\ hstatus = [h \in Handlers |-> 0]
    /\ hcalled = [h \in Handlers |-> FALSE]
    /\ hescaped = [h \in Handlers |-> FALSE]
    /\ received = 0
    /\ failures = 0

\* initialize(), lines 37-40: `if not Marvin:` then the call of ChatBot().
InitCheck ==
    /\ initPc = "start"
    /\ IF Marvin = 0
          THEN /\ initPc' = "constructing"
               /\ constructed' = constructed + 1
               /\ constructors' = constructors \cup {"init"}
          ELSE /\ initPc' = "done"
               /\ UNCHANGED <<constructed, constructors>>
    /\ UNCHANGED <<mode, Marvin, hpc, hreq, hready, hstatus, hcalled, hescaped,
                   received, failures>>

\* initialize(), line 40-41: ChatBot() returns and Marvin is assigned.
InitAssign ==
    /\ initPc = "constructing"
    /\ Marvin' = constructed
    /\ initPc' = "done"
    /\ UNCHANGED <<mode, constructed, constructors, hpc, hreq, hready, hstatus,
                   hcalled, hescaped, received, failures>>

\* initialize(), line 40: ChatBot() raises (create_model's restore failed);
\* the thread (or, run as a script, the process) ends and Marvin stays None.
InitFail ==
    /\ initPc = "constructing"
    /\ initPc' = "failed"
    /\ UNCHANGED <<mode, Marvin, constructed, constructors, hpc, hreq, hready,
                   hstatus, hcalled, hescaped, received, failures>>

\* Lines 65-69: run as a script, application.run starts only after
\* initialize() has returned, and Flask's development server handles one
\* request at a time; imported, the container dispatches requests to its
\* threads while Thread(target=initialize) runs.
MayDispatch(h) ==
    IF mode = "main"
       THEN initPc = "done" /\ \A g \in Handlers : hpc[g] = "idle"
       ELSE TRUE

\* Line 48-50: a POST /message is routed to generate_response.
HandlerReceive(h, req) ==
    /\ hpc[h] = "idle"
    /\ received < MaxRequests
    /\ MayDispatch(h)
    /\ hpc' = [hpc EXCEPT ![h] = "check"]
    /\ hreq' = [hreq EXCEPT ![h] = req]
    /\ received' = received + 1
    /\ UNCHANGED <<mode, Marvin, initPc, constructed, constructors, hready,
                   hstatus, hcalled, hescaped, failures>>

\* The slip of raising abort(418) inside the try block: the bare except turns
\* the NotReady signal into the generic failure.
HandlerCheckAbortInTry(h) ==
    /\ hpc[h] = "check"
    /\ hready' = [hready EXCEPT ![h] = (Marvin # 0)]
    /\ hpc' = [hpc EXCEPT ![h] = IF Marvin = 0 THEN "except" ELSE "try"]
    /\ UNCHANGED <<mode, Marvin, initPc, constructed, constructors, hreq, hstatus,
                   hcalled, hescaped, received, failures>>

\* The slip of loading the model lazily on the request path when it is missing.
HandlerCheckLazyLoad(h) ==
    /\ hpc[h] = "check"
    /\ hready' = [hready EXCEPT ![h] = TRUE]
    /\ IF Marvin = 0
          THEN /\ constructed' = constructed + 1
               /\ constructors' = constructors \cup {"handler"}
               /\ Marvin' = constructed + 1
          ELSE UNCHANGED <<constructed, constructors, Marvin>>
    /\ hpc' = [hpc EXCEPT ![h] = "try"]
    /\ UNCHANGED <<mode, initPc, hreq, hstatus, hcalled, hescaped, received, failures>>

\* Lines 51-54: `if not Marvin:` abort(418), outside the try block: the
\* HTTPException is Flask's way of answering 418.
HandlerCheck(h) ==
    /\ hpc[h] = "check"
    /\ hready' = [hready EXCEPT ![h] = (Marvin # 0)]
    /\ IF Marvin = 0
          THEN /\ hstatus' = [hstatus EXCEPT ![h] = 418]
               /\ hpc' = [hpc EXCEPT ![h] = "done"]
          ELSE /\ hpc' = [hpc EXCEPT ![h] = "try"]
               /\ UNCHANGED hstatus
    /\ UNCHANGED <<mode, Marvin, initPc, constructed, constructors, hreq, hcalled,
                   hescaped, received, failures>>

\* Lines 55-58: inside the try, abort(400) on a body without 'message' (the
\* bare except catches it), else the call of Marvin.respond begins.
HandlerValidate(h) ==
    /\ hpc[h] = "try"
    /\ IF hreq[h] = "no_message"
          THEN /\ hpc' = [hpc EXCEPT ![h] = "except"]
               /\ UNCHANGED hcalled
          ELSE /\ hpc' = [hpc EXCEPT ![h] = "respond"]
               /\ hcalled' = [hcalled EXCEPT ![h] = TRUE]
    /\ UNCHANGED <<mode, Marvin, initPc, constructed, constructors, hreq, hready,
                   hstatus, hescaped, received, failures>>

\* Lines 58-59: Marvin.respond returns and the reply is answered 200, or it
\* raises into the except clause.
HandlerRespond(h) ==
    /\ hpc[h] = "respond"
    /\ IF RespondRaises(hreq[h])
          THEN /\ hpc' = [hpc EXCEPT ![h] = "except"]
               /\ UNCHANGED hstatus
          ELSE /\ hpc' = [hpc EXCEPT ![h] = "done"]
               /\ hstatus' = [hstatus EXCEPT ![h] = 200]
    /\ UNCHANGED <<mode, Marvin, initPc, constructed, constructors, hreq, hready,
                   hcalled, hescaped, received, failures>>

\* The slip of dropping the model when a request fails.
HandlerExceptUnloads(h) ==
    /\ hpc[h] = "except"
    /\ hstatus' = [hstatus EXCEPT ![h] = 500]
    /\ hescaped' = [hescaped EXCEPT ![h] = TRUE]
    /\ hpc' = [hpc EXCEPT ![h] = "done"]
    /\ failures' = failures + 1
    /\ Marvin' = 0
    /\ UNCHANGED <<mode, initPc, constructed, constructors, hreq, hready, hcalled,
                   received>>

\* Lines 60-62: the bare except. jsonify is given sys.exc_info()[0], a class,
\* which is not JSON serializable: the TypeError leaves generate_response and
\* Flask answers the request 500.
HandlerExcept(h) ==
    /\ hpc[h] = "except"
    /\ hstatus' = [hstatus EXCEPT ![h] = 500]
    /\ hescaped' = [hescaped EXCEPT ![h] = TRUE]
    /\ hpc' = [hpc EXCEPT ![h] = "done"]
    /\ failures' = failures + 1
    /\ UNCHANGED <<mode, Marvin, initPc, constructed, constructors, hreq, hready,
                   hcalled, received>>

\* The answer is sent; the thread is free for the next request.
HandlerFinish(h) ==
    /\ hpc[h] = "done"
    /\ hpc' = [hpc EXCEPT ![h] = "idle"]
    /\ hreq' = [hreq EXCEPT ![h] = "none"]
    /\ hready' = [hready EXCEPT ![h] = FALSE]
    /\ hstatus' = [hstatus EXCEPT ![h] = 0]
    /\ hcalled' = [hcalled EXCEPT ![h] = FALSE]
    /\ hescaped' = [hescaped EXCEPT ![h] = FALSE]
    /\ UNCHANGED <<mode, Marvin, initPc, constructed, constructors, received, failures>>

(***************************************************************************)
(* trainer/model/model_utils.py                                            *)
(***************************************************************************)
ModelInit ==
    /\ restore_model \in {"", "valid", "invalid"}
    /\ train_ckpt \in {"none", "stale", "valid"}
    /\ use_buckets \in BOOLEAN
    /\ forward_only \in BOOLEAN
    /\ cmPc = "start"
    /\ cmModel = [batching |-> "none", forward_only |-> FALSE]
    /\ ckpt = "unset"
    /\ cmWriter = FALSE
    /\ cmParams = "uninitialized"
    /\ cmAttempts = {}
    /\ cmResult = "none"

ModelIdle ==
    /\ restore_model = ""
    /\ train_ckpt = "none"
    /\ use_buckets = FALSE
    /\ forward_only = FALSE
    /\ cmPc = "start"
    /\ cmModel = [batching |-> "none", forward_only |-> FALSE]
    /\ ckpt = "unset"
    /\ cmWriter = FALSE
    /\ cmParams = "uninitialized"
    /\ cmAttempts = {}
    /\ cmResult = "none"

\* Lines 16-27: the Seq2SeqModel is built, bucketed or with one fixed length.
CM_Build ==
    /\ cmPc = "start"
    /\ cmModel' = [batching |-> IF use_buckets THEN "bucketed" ELSE "fixed",
                   forward_only |-> forward_only]
    /\ cmPc' = "get_ckpt"
    /\ UNCHANGED <<restore_model, train_ckpt, use_buckets, forward_only, ckpt, cmWriter, cmParams,
                   cmAttempts, cmResult>>

\* Line 29: ckpt = tf.train.get_checkpoint_state(params.train_dir).
CM_GetCheckpointState ==
    /\ cmPc = "get_ckpt"
    /\ ckpt' = train_ckpt
    /\ cmPc' = "branch"
    /\ UNCHANGED <<restore_model, train_ckpt, use_buckets, forward_only, cmModel, cmWriter, cmParams,
                   cmAttempts, cmResult>>

\* The slip of catching a failed explicit restore and carrying on with the
\* checkpoint directory or fresh parameters.
CM_RestoreExplicitFallsBack ==
    /\ cmPc = "branch"
    /\ restore_model # ""
    /\ cmAttempts' = cmAttempts \cup {"restore_model"}
    /\ IF restore_model = "valid"
          THEN /\ cmParams' = "restore_model"
               /\ cmPc' = "return"
          ELSE /\ cmPc' = "writer"
               /\ UNCHANGED cmParams
    /\ UNCHANGED <<restore_model, train_ckpt, use_buckets, forward_only, cmModel, ckpt, cmWriter,
                   cmResult>>

\* Lines 31-33: params.restore_model is set: model.saver.restore from that
\* path; a failing restore raises out of create_model.
CM_RestoreExplicit ==
    /\ cmPc = "branch"
    /\ restore_model # ""
    /\ cmAttempts' = cmAttempts \cup {"restore_model"}
    /\ IF restore_model = "valid"
          THEN /\ cmParams' = "restore_model"
               /\ cmPc' = "return"
               /\ UNCHANGED cmResult
          ELSE /\ cmResult' = "raised"
               /\ cmPc' = "end"
               /\ UNCHANGED cmParams
    /\ UNCHANGED <<restore_model, train_ckpt, use_buckets, forward_only, cmModel, ckpt, cmWriter>>

\* Lines 34-35: no explicit path: the summary FileWriter is opened.
CM_OpenWriter ==
    /\ cmPc = "branch"
    /\ restore_model = ""
    /\ cmWriter' = TRUE
    /\ cmPc' = "writer"
    /\ UNCHANGED <<restore_model, train_ckpt, use_buckets, forward_only, cmModel, ckpt, cmParams,
                   cmAttempts, cmResult>>

\* Lines 36-38: a checkpoint whose file exists is restored.
CM_RestoreCheckpoint ==
    /\ cmPc = "writer"
    /\ ckpt = "valid"
    /\ cmAttempts' = cmAttempts \cup {"train_dir"}
    /\ cmParams' = "train_dir"
    /\ cmPc' = "return"
    /\ UNCHANGED <<restore_model, train_ckpt, use_buckets, forward_only, cmModel, ckpt, cmWriter,
                   cmResult>>

\* Lines 39-41: no checkpoint, or its file is gone: fresh parameters.
CM_InitializeFresh ==
    /\ cmPc = "writer"
    /\ ckpt # "valid"
    /\ cmAttempts' = cmAttempts \cup {"fresh"}
    /\ cmParams' = "fresh"
    /\ cmPc' = "return"
    /\ UNCHANGED <<restore_model, train_ckpt, use_buckets, forward_only, cmModel, ckpt, cmWriter,
                   cmResult>>

\* Line 43: return model.
CM_Return ==
    /\ cmPc = "return"
    /\ cmResult' = "returned"
    /\ cmPc' = "end"
    /\ UNCHANGED <<restore_model, train_ckpt, use_buckets, forward_only, cmModel, ckpt, cmWriter,
                   cmParams, cmAttempts>>

(***************************************************************************)
(* trainer/data/data_utils.py: strings                                     *)
(*                                                                         *)
(* A string is a sequence of atoms. An atom is one character, or a word    *)
(* of letters that no operation of this file looks inside except the       *)
(* iteration over the sentinel string.                                     *)
(***************************************************************************)
_PAD == <<"_PAD">>
_GO == <<"_GO">>
_EOS == <<"_EOS">>
_UNK == <<"_UNK">>
_START_VOCAB == <<_PAD, _GO, _EOS, _UNK>>

PAD_ID == 0
GO_ID == 1
EOS_ID == 2
UNK_ID == 3

\* _WORD_SPLIT, line 27, and _DIGIT_RE, line 28.
_WORD_SPLIT == {".", ",", "!", "?", "\"", "'", ":", ";", ")", "("}
_DIGIT_RE == {"0", "1", "2", "3", "4", "5", "6", "7", "8", "9"}
Whitespace == {" ", "\n", "\t"}

\* The literal of lines 32 and 126, and the characters a loop over it yields.
breakHerePlease == <<"breakHerePlease">>
breakHerePleaseChars ==
    <<"b", "r", "e", "a", "k", "H", "e", "r", "e", "P", "l", "e", "a", "s", "e">>

\* The atoms the corpus and the sentences are made of: a digit, a punctuation
\* mark, the blank, the line end, a reserved symbol written out in the text
\* and a word (the one that, alone on a line, is the sentinel).
Alphabet == {"7", ".", " ", "\n", "_UNK", "breakHerePlease"}

StringsUpTo(n) == UNION {[1..k -> Alphabet] : k \in 0..n}

RECURSIVE Flatten(_)
Flatten(ss) == IF ss = <<>> THEN <<>> ELSE Head(ss) \o Flatten(Tail(ss))

\* str.strip()
RECURSIVE LStrip(_)
LStrip(s) == IF s # <<>> /\ Head(s) \in Whitespace THEN LStrip(Tail(s)) ELSE s
RECURSIVE RStrip(_)
RStrip(s) ==
    IF s # <<>> /\ s[Len(s)] \in Whitespace THEN RStrip(SubSeq(s, 1, Len(s) - 1)) ELSE s
strip(s) == RStrip(LStrip(s))

\* str.split(): the maximal runs of non-whitespace.
RECURSIVE SplitFrom(_, _)
SplitFrom(s, cur) ==
    LET flush == IF cur = <<>> THEN <<>> ELSE <<cur>> IN
    IF s = <<>> THEN flush
    ELSE IF Head(s) \in Whitespace THEN flush \o SplitFrom(Tail(s), <<>>)
    ELSE SplitFrom(Tail(s), Append(cur, Head(s)))
split(s) == SplitFrom(s, <<>>)

\* re.split(_WORD_SPLIT, fragment): the pattern is one capturing group, so
\* the marks are kept and the text between them appears even when empty.
RECURSIVE ReSplitFrom(_, _)
ReSplitFrom(s, cur) ==
    IF s = <<>> THEN <<cur>>
    ELSE IF Head(s) \in _WORD_SPLIT
            THEN <<cur, <<Head(s)>>>> \o ReSplitFrom(Tail(s), <<>>)
    ELSE ReSplitFrom(Tail(s), Append(cur, Head(s)))
re_split(fragment) == ReSplitFrom(fragment, <<>>)

\* re.sub(_DIGIT_RE, repl, w): every digit is replaced by repl.
RECURSIVE re_sub(_, _)
re_sub(repl, w) ==
    IF w = <<>> THEN <<>>
    ELSE (IF Head(w) \in _DIGIT_RE THEN repl ELSE <<Head(w)>>) \o re_sub(repl, Tail(w))

\* basic_tokenizer, lines 30-37. The return value is a list of words, or,
\* for the sentinel, the stripped string itself: `items` is what a loop over
\* the return value yields.
basic_tokenizer(sentence) ==
    IF strip(sentence) = breakHerePlease
       THEN [isString |-> TRUE,
             items |-> [i \in DOMAIN breakHerePleaseChars |-> <<breakHerePleaseChars[i]>>]]
       ELSE LET fragments == split(strip(sentence))
                words == Flatten([i \in DOMAIN fragments |-> re_split(fragments[i])])
            IN  [isString |-> FALSE, items |-> SelectSeq(words, LAMBDA w : w # <<>>)]

\* Files: a file exists or not, and has a content.
Absent == [exists |-> FALSE, content |-> <<>>]
File(c) == [exists |-> TRUE, content |-> c]

\* A file opened for writing and closed without a write: whether the file
\* is there afterwards depends on the gfile implementation.
OpenedFor(c) == IF c = <<>> THEN {Absent, File(<<>>)} ELSE {File(c)}

\* `for line in f`: the lines of a text, each with its line end.
RECURSIVE LinesFrom(_, _)
LinesFrom(s, cur) ==
    IF s = <<>> THEN (IF cur = <<>> THEN <<>> ELSE <<cur>>)
    ELSE IF Head(s) = "\n" THEN <<Append(cur, "\n")>> \o LinesFrom(Tail(s), <<>>)
    ELSE LinesFrom(Tail(s), Append(cur, Head(s)))
Lines(text) == LinesFrom(text, <<>>)

(***************************************************************************)
(* create_vocabulary                                                       *)
(***************************************************************************)
\* Lines 59-65: the words counted, in the order they are met.
CountedWords(text, normalize_digits) ==
    LET lines == Lines(text)
        tokens == Flatten([i \in DOMAIN lines |-> basic_tokenizer(lines[i]).items])
    IN  [i \in DOMAIN tokens |->
            IF normalize_digits THEN re_sub(<<"1", "0", "0">>, tokens[i]) ELSE tokens[i]]

\* Lines 66-69: vocab[word], the number of times word was met.
Count(word, words) == Cardinality({i \in DOMAIN words : words[i] = word})

\* The keys of the dict `vocab` in iteration order, taken as insertion order.
RECURSIVE Keys(_, _)
Keys(words, seen) ==
    IF words = <<>> THEN <<>>
    ELSE IF Head(words) \in seen THEN Keys(Tail(words), seen)
    ELSE <<Head(words)>> \o Keys(Tail(words), seen \cup {Head(words)})

\* sorted(vocab, key=vocab.get, reverse=True): by descending count, words of
\* equal count in the order of `keys` (the sort is stable).
RECURSIVE SortedByCount(_, _)
SortedByCount(keys, words) ==
    IF keys = <<>> THEN <<>>
    ELSE LET i == CHOOSE i \in DOMAIN keys :
                    /\ \A j \in DOMAIN keys : Count(keys[j], words) <= Count(keys[i], words)
                    /\ \A j \in 1..(i - 1) : Count(keys[j], words) < Count(keys[i], words)
         IN  <<keys[i]>> \o
             SortedByCount(SubSeq(keys, 1, i - 1) \o SubSeq(keys, i + 1, Len(keys)), words)

\* Lines 71-73: the lines of the 'complete' file, word:count.
CompleteLines(text, normalize_digits) ==
    LET words == CountedWords(text, normalize_digits)
        ranked == SortedByCount(Keys(words, {}), words)
    IN  [i \in DOMAIN ranked |-> <<ranked[i], Count(ranked[i], words)>>]

\* Lines 70 and 74-78: vocab_list, cut to max_vocabulary_size.
VocabList(text, max_vocabulary_size, normalize_digits) ==
    LET words == CountedWords(text, normalize_digits)
        vocab_list == _START_VOCAB \o SortedByCount(Keys(words, {}), words)
    IN  IF Len(vocab_list) > max_vocabulary_size
           THEN SubSeq(vocab_list, 1, max_vocabulary_size)
           ELSE vocab_list

\* The sizes tried for max_vocabulary_size: those with room for _START_VOCAB.
VocabSizes == Len(_START_VOCAB)..MaxVocabSize

\* cvOutcome tells what the latest call did: "none" yet, the corpus was
\* "not_found", the files were "built", or the vocabulary was there already
\* and the call would have written the same file ("skipped_same") or another
\* one ("skipped_other"); "cut" is a run stopped before its end.

\* The slip of leaving out the existence test of line 54.
create_vocabulary_always(max_vocabulary_size, normalize_digits) ==
    /\ dataFile.exists
    /\ corpusReads' = corpusReads + 1
    /\ completeFile' \in OpenedFor(CompleteLines(dataFile.content, normalize_digits))
    /\ vocabFile' =
          File(VocabList(dataFile.content, max_vocabulary_size, normalize_digits))
    /\ cvOutcome' = "built"
    /\ cvMax' = max_vocabulary_size
    /\ cvNorm' = normalize_digits
    /\ UNCHANGED <<dataFile, idsFile>>

\* create_vocabulary(vocabulary_path, data_path, max_vocabulary_size,
\* normalize_digits), lines 54-78, run to its end.
create_vocabulary(max_vocabulary_size, normalize_digits) ==
    IF vocabFile.exists
       THEN /\ cvOutcome' =
                 IF /\ dataFile.exists
                    /\ vocabFile.content =
                          VocabList(dataFile.content, max_vocabulary_size, normalize_digits)
                    THEN "skipped_same" ELSE "skipped_other"
            /\ UNCHANGED <<fileVars, corpusReads, cvMax, cvNorm>>
       ELSE IF ~dataFile.exists
               THEN /\ cvOutcome' = "not_found"
                    /\ UNCHANGED <<fileVars, corpusReads, cvMax, cvNorm>>
               ELSE /\ corpusReads' = corpusReads + 1
                    /\ completeFile' \in
                          OpenedFor(CompleteLines(dataFile.content, normalize_digits))
                    /\ vocabFile' = File(VocabList(dataFile.content, max_vocabulary_size,
                                                   normalize_digits))
                    /\ cvOutcome' = "built"
                    /\ cvMax' = max_vocabulary_size
                    /\ cvNorm' = normalize_digits
                    /\ UNCHANGED <<dataFile, idsFile>>

(***************************************************************************)
(* initialize_vocabulary                                                   *)
(***************************************************************************)
\* Lines 97-100: the lines of the file, each stripped.
RevVocabOf(lines) == [i \in DOMAIN lines |-> strip(Append(lines[i], "\n"))]

\* Line 101: dict([(x, y) for (y, x) in enumerate(rev_vocab)]); of two equal
\* lines the later one gives the id.
VocabOf(rev) ==
    [w \in {rev[i] : i \in DOMAIN rev} |->
        (CHOOSE i \in DOMAIN rev : rev[i] = w /\ \A j \in DOMAIN rev : rev[j] = w => j <= i) - 1]

EmptyVocab == [w \in {} |-> 0]

\* initialize_vocabulary(vocabulary_path), lines 96-104.
initialize_vocabulary ==
    IF vocabFile.exists
       THEN /\ loaded' = TRUE
            /\ rev_vocab' = RevVocabOf(vocabFile.content)
            /\ vocab' = VocabOf(RevVocabOf(vocabFile.content))
       ELSE UNCHANGED loadVars    \* ValueError

(***************************************************************************)
(* sentence_to_token_ids and data_to_token_ids                             *)
(***************************************************************************)
\* vocabulary.get(w, UNK_ID)
Get(vocabulary, w) == IF w \in DOMAIN vocabulary THEN vocabulary[w] ELSE UNK_ID

\* What sentence_to_token_ids gives back: a list of ids, a list holding the
\* sentinel string, or a TypeError.
Ids(ids) == [kind |-> "ids", ids |-> ids]
SentinelList == [kind |-> "sentinel", ids |-> <<>>]
TypeError == [kind |-> "TypeError", ids |-> <<>>]

\* The values the callers give for `tokenizer`: "None" by default, and the
\* Boolean "False" or "True" data_to_token_ids passes in third position. A
\* true one is called, and a Boolean is not callable.

\* sentence_to_token_ids(sentence, vocabulary, tokenizer, normalize_digits),
\* lines 122-132.
sentence_to_token_ids(sentence, vocabulary, tokenizer, normalize_digits) ==
    IF tokenizer = "True" THEN TypeError
    ELSE LET words == basic_tokenizer(sentence) IN
         IF words.isString THEN SentinelList
         ELSE IF ~normalize_digits
                 THEN Ids([i \in DOMAIN words.items |-> Get(vocabulary, words.items[i])])
         ELSE Ids([i \in DOMAIN words.items |->
                      Get(vocabulary, re_sub(<<"0">>, words.items[i]))])

\* Line 158: sentence_to_token_ids(line, vocab, normalize_digits): the flag
\* is the third positional argument, which is `tokenizer`; normalize_digits
\* keeps its default, True.
LineToTokenIds(line, vocabulary, normalize_digits) ==
    sentence_to_token_ids(line, vocabulary,
                          IF normalize_digits THEN "True" ELSE "False", TRUE)

\* Lines 154-159: the lines written before the first line that raises.
RECURSIVE WrittenLines(_, _, _)
WrittenLines(lines, vocabulary, normalize_digits) ==
    IF lines = <<>> THEN <<>>
    ELSE LET r == LineToTokenIds(Head(lines), vocabulary, normalize_digits) IN
         IF r.kind = "TypeError" THEN <<>>
         ELSE <<r>> \o WrittenLines(Tail(lines), vocabulary, normalize_digits)

\* data_to_token_ids(data_path, target_path, vocabulary_path,
\* normalize_digits), lines 148-159, run to its end.
data_to_token_ids(normalize_digits) ==
    IF idsFile.exists
       THEN /\ idsOutcome' = "skipped"
            /\ UNCHANGED <<fileVars, idsNorm>>
    ELSE IF ~vocabFile.exists
       THEN /\ idsOutcome' = "ValueError"
            /\ UNCHANGED <<fileVars, idsNorm>>
    ELSE IF ~dataFile.exists
       THEN /\ idsOutcome' = "NotFound"
            /\ idsFile' \in OpenedFor(<<>>)
            /\ idsNorm' = normalize_digits
            /\ UNCHANGED <<dataFile, vocabFile, completeFile>>
    ELSE LET lines == Lines(dataFile.content)
             written == WrittenLines(lines, VocabOf(RevVocabOf(vocabFile.content)),
                                     normalize_digits)
         IN  /\ idsOutcome' = IF Len(written) < Len(lines) THEN "TypeError" ELSE "written"
             /\ idsFile' \in OpenedFor(written)
             /\ idsNorm' = normalize_digits
             /\ UNCHANGED <<dataFile, vocabFile, completeFile>>

(***************************************************************************)
(* The builders of prepare_data, with a run cut short                      *)
(***************************************************************************)
\* prepare_data, line 179: create_vocabulary(vocab_path, train_path,
\* vocabulary_size), normalize_digits left at its default, True.
PrepareVocabNormalize == TRUE
\* prepare_data, line 183: data_to_token_ids(train_path, train_ids_path,
\* vocab_path), normalize_digits left at its default, False.
PrepareIdsNormalize == FALSE

Prefix(seq, j) == SubSeq(seq, 1, j)

\* create_vocabulary stopped (killed, or an exception in a write) while it
\* writes the 'complete' file, lines 71-73, after some of its lines.
create_vocabulary_cut_in_complete ==
    /\ ~vocabFile.exists
    /\ dataFile.exists
    /\ LET all == CompleteLines(dataFile.content, PrepareVocabNormalize) IN
         \E j \in 0..Len(all) :
            completeFile' \in (IF j = 0 THEN {completeFile, File(<<>>)}
                                        ELSE {File(Prefix(all, j))})
    /\ corpusReads' = corpusReads + 1
    /\ cvOutcome' = "cut"
    /\ UNCHANGED <<dataFile, vocabFile, idsFile, cvMax, cvNorm>>

\* create_vocabulary stopped while it writes the vocabulary file, lines
\* 76-78, after some but not all of its lines.
create_vocabulary_cut_in_vocab ==
    /\ ~vocabFile.exists
    /\ dataFile.exists
    /\ LET all == VocabList(dataFile.content, vocabulary_size, PrepareVocabNormalize) IN
         \E j \in 1..(Len(all) - 1) : vocabFile' = File(Prefix(all, j))
    /\ completeFile' \in OpenedFor(CompleteLines(dataFile.content, PrepareVocabNormalize))
    /\ corpusReads' = corpusReads + 1
    /\ cvOutcome' = "cut"
    /\ cvMax' = vocabulary_size
    /\ cvNorm' = PrepareVocabNormalize
    /\ UNCHANGED <<dataFile, idsFile>>

\* data_to_token_ids stopped while it writes the token-id file, line 159,
\* after some but not all of its lines.
data_to_token_ids_cut ==
    /\ ~idsFile.exists
    /\ vocabFile.exists
    /\ dataFile.exists
    /\ LET all == WrittenLines(Lines(dataFile.content),
                               VocabOf(RevVocabOf(vocabFile.content)),
                               PrepareIdsNormalize) IN
         \E j \in 1..(Len(all) - 1) : idsFile' = File(Prefix(all, j))
    /\ idsOutcome' = "cut"
    /\ idsNorm' = PrepareIdsNormalize
    /\ UNCHANGED <<dataFile, vocabFile, completeFile>>

(***************************************************************************)
(* Initial values                                                          *)
(***************************************************************************)
NoCall == [called |-> FALSE, sentence |-> <<>>, normalize_digits |-> FALSE]
NoRun == [op |-> "none", cut |-> FALSE, cuts |-> 0]

DataIdle ==
    /\ dataFile = Absent
    /\ vocabFile = Absent
    /\ completeFile = Absent
    /\ idsFile = Absent
    /\ corpusReads = 0
    /\ cvOutcome = "none"
    /\ cvMax = 0
    /\ cvNorm = FALSE
    /\ loaded = FALSE
    /\ vocab = EmptyVocab
    /\ rev_vocab = <<>>
    /\ encArgs = NoCall
    /\ encResult = Ids(<<>>)
    /\ idsOutcome = "none"
    /\ idsNorm = FALSE
    /\ vocabulary_size = 0
    /\ lastRun = NoRun

\* As DataIdle, with a corpus of up to MaxFileLen atoms at data_path.
DataWithCorpus ==
    /\ dataFile \in {File(c) : c \in StringsUpTo(MaxFileLen)}
    /\ vocabFile = Absent
    /\ completeFile = Absent
    /\ idsFile = Absent
    /\ corpusReads = 0
    /\ cvOutcome = "none"
    /\ cvMax = 0
    /\ cvNorm = FALSE
    /\ loaded = FALSE
    /\ vocab = EmptyVocab
    /\ rev_vocab = <<>>
    /\ encArgs = NoCall
    /\ encResult = Ids(<<>>)
    /\ idsOutcome = "none"
    /\ idsNorm = FALSE
    /\ vocabulary_size = 0
    /\ lastRun = NoRun

\* As DataWithCorpus, with prepare_data's vocabulary_size chosen.
DataForPrepare ==
    /\ dataFile \in {File(c) : c \in StringsUpTo(MaxFileLen)}
    /\ vocabFile = Absent
    /\ completeFile = Absent
    /\ idsFile = Absent
    /\ corpusReads = 0
    /\ cvOutcome = "none"
    /\ cvMax = 0
    /\ cvNorm = FALSE
    /\ loaded = FALSE
    /\ vocab = EmptyVocab
    /\ rev_vocab = <<>>
    /\ encArgs = NoCall
    /\ encResult = Ids(<<>>)
    /\ idsOutcome = "none"
    /\ idsNorm = FALSE
    /\ vocabulary_size \in VocabSizes
    /\ lastRun = NoRun

(***************************************************************************)
(* Spec: the server                                                        *)
(***************************************************************************)
Init == ServerInit /\ ModelIdle /\ DataIdle

Next ==
    \/ InitCheck /\ UNCHANGED <<modelVars, dataVars>>
    \/ InitAssign /\ UNCHANGED <<modelVars, dataVars>>
    \/ InitFail /\ UNCHANGED <<modelVars, dataVars>>
    \/ \E h \in Handlers, req \in Requests :
          HandlerReceive(h, req) /\ UNCHANGED <<modelVars, dataVars>>
    \/ \E h \in Handlers : HandlerCheck(h) /\ UNCHANGED <<modelVars, dataVars>>
    \/ \E h \in Handlers : HandlerValidate(h) /\ UNCHANGED <<modelVars, dataVars>>
    \/ \E h \in Handlers : HandlerRespond(h) /\ UNCHANGED <<modelVars, dataVars>>
    \/ \E h \in Handlers : HandlerExcept(h) /\ UNCHANGED <<modelVars, dataVars>>
    \/ \E h \in Handlers : HandlerFinish(h) /\ UNCHANGED <<modelVars, dataVars>>

Spec == Init /\ [][Next]_vars

(***************************************************************************)
(* SpecModel: create_model                                                 *)
(***************************************************************************)
ServerIdle ==
    /\ mode = "main"
    /\ Marvin = 0
    /\ initPc = "start"
    /\ constructed = 0
    /\ constructors = {}
    /\ hpc = [h \in Handlers |-> "idle"]
    /\ hreq = [h \in Handlers |-> "none"]
    /\ hready = [h \in Handlers |-> FALSE]
    /\ hstatus = [h \in Handlers |-> 0]
    /\ hcalled = [h \in Handlers |-> FALSE]
    /\ hescaped = [h \in Handlers |-> FALSE]
    /\ received = 0
    /\ failures = 0

InitModel == ServerIdle /\ ModelInit /\ DataIdle

NextModel ==
    \/ CM_Build /\ UNCHANGED <<serverVars, dataVars>>
    \/ CM_GetCheckpointState /\ UNCHANGED <<serverVars, dataVars>>
    \/ CM_RestoreExplicit /\ UNCHANGED <<serverVars, dataVars>>
    \/ CM_OpenWriter /\ UNCHANGED <<serverVars, dataVars>>
    \/ CM_RestoreCheckpoint /\ UNCHANGED <<serverVars, dataVars>>
    \/ CM_InitializeFresh /\ UNCHANGED <<serverVars, dataVars>>
    \/ CM_Return /\ UNCHANGED <<serverVars, dataVars>>

SpecModel == InitModel /\ [][NextModel]_vars

(***************************************************************************)
(* SpecVocab: a corpus that grows, create_vocabulary, initialize_vocabulary *)
(***************************************************************************)
\* The corpus at data_path is created, or gets one more atom.
WriteCorpus(c) ==
    /\ IF dataFile.exists
          THEN /\ Len(dataFile.content) < MaxFileLen
               /\ dataFile' = File(Append(dataFile.content, c))
          ELSE dataFile' = File(<<>>)
    /\ UNCHANGED <<vocabFile, completeFile, idsFile, buildVars, loadVars, encVars,
                   idsVars, recoverVars, serverVars, modelVars>>

CreateVocabulary(max_vocabulary_size, normalize_digits) ==
    /\ create_vocabulary(max_vocabulary_size, normalize_digits)
    /\ UNCHANGED <<loadVars, encVars, idsVars, recoverVars, serverVars, modelVars>>

InitializeVocabulary ==
    /\ initialize_vocabulary
    /\ UNCHANGED <<fileVars, buildVars, encVars, idsVars, recoverVars, serverVars,
                   modelVars>>

InitVocab == ServerIdle /\ ModelIdle /\ DataIdle

NextVocab ==
    \/ \E c \in Alphabet : WriteCorpus(c)
    \/ \E m \in VocabSizes, n \in BOOLEAN : CreateVocabulary(m, n)
    \/ InitializeVocabulary

SpecVocab == InitVocab /\ [][NextVocab]_vars

(***************************************************************************)
(* SpecEncode: sentence_to_token_ids on the vocabulary of a corpus         *)
(***************************************************************************)
\* sentence_to_token_ids(sentence, vocab) or (sentence, vocab, None, flag) on
\* the loaded vocabulary; one call in a run.
Encode(sentence, normalize_digits) ==
    /\ loaded
    /\ ~encArgs.called
    /\ encArgs' = [called |-> TRUE, sentence |-> sentence,
                   normalize_digits |-> normalize_digits]
    /\ encResult' = sentence_to_token_ids(sentence, vocab, "None", normalize_digits)
    /\ UNCHANGED <<fileVars, buildVars, loadVars, idsVars, recoverVars, serverVars,
                   modelVars>>

InitEncode == ServerIdle /\ ModelIdle /\ DataWithCorpus

NextEncode ==
    \/ \E m \in VocabSizes, n \in BOOLEAN : CreateVocabulary(m, n)
    \/ InitializeVocabulary
    \/ \E s \in StringsUpTo(MaxSentenceLen), n \in BOOLEAN : Encode(s, n)

SpecEncode == InitEncode /\ [][NextEncode]_vars

(***************************************************************************)
(* SpecIds: data_to_token_ids                                              *)
(***************************************************************************)
DataToTokenIds(normalize_digits) ==
    /\ data_to_token_ids(normalize_digits)
    /\ UNCHANGED <<buildVars, loadVars, encVars, recoverVars, serverVars, modelVars>>

InitIds == ServerIdle /\ ModelIdle /\ DataWithCorpus

NextIds ==
    \/ \E m \in VocabSizes, n \in BOOLEAN : CreateVocabulary(m, n)
    \/ \E n \in BOOLEAN : DataToTokenIds(n)

SpecIds == InitIds /\ [][NextIds]_vars

(***************************************************************************)
(* SpecRecover: prepare_data's builders, re-invoked after runs cut short   *)
(***************************************************************************)
PrepareVocabulary ==
    /\ create_vocabulary(vocabulary_size, PrepareVocabNormalize)
    /\ lastRun' = [op |-> "create_vocabulary", cut |-> FALSE, cuts |-> lastRun.cuts]
    /\ UNCHANGED <<loadVars, encVars, idsVars, vocabulary_size, serverVars, modelVars>>

PrepareVocabularyCutInComplete ==
    /\ create_vocabulary_cut_in_complete
    /\ lastRun.cuts < MaxCuts
    /\ lastRun' = [op |-> "create_vocabulary", cut |-> TRUE, cuts |-> lastRun.cuts + 1]
    /\ UNCHANGED <<loadVars, encVars, idsVars, vocabulary_size, serverVars, modelVars>>

PrepareVocabularyCutInVocab ==
    /\ create_vocabulary_cut_in_vocab
    /\ lastRun.cuts < MaxCuts
    /\ lastRun' = [op |-> "create_vocabulary", cut |-> TRUE, cuts |-> lastRun.cuts + 1]
    /\ UNCHANGED <<loadVars, encVars, idsVars, vocabulary_size, serverVars, modelVars>>

PrepareTokenIds ==
    /\ data_to_token_ids(PrepareIdsNormalize)
    /\ lastRun' = [op |-> "data_to_token_ids", cut |-> FALSE, cuts |-> lastRun.cuts]
    /\ UNCHANGED <<buildVars, loadVars, encVars, vocabulary_size, serverVars, modelVars>>

PrepareTokenIdsCut ==
    /\ data_to_token_ids_cut
    /\ lastRun.cuts < MaxCuts
    /\ lastRun' = [op |-> "data_to_token_ids", cut |-> TRUE, cuts |-> lastRun.cuts + 1]
    /\ UNCHANGED <<buildVars, loadVars, encVars, vocabulary_size, serverVars, modelVars>>

InitRecover == ServerIdle /\ ModelIdle /\ DataForPrepare

NextRecover ==
    \/ PrepareVocabulary
    \/ PrepareVocabularyCutInComplete
    \/ PrepareVocabularyCutInVocab
    \/ PrepareTokenIds
    \/ PrepareTokenIdsCut

SpecRecover == InitRecover /\ [][NextRecover]_vars

(***************************************************************************)
(* Claims about server.py (Spec)                                           *)
(***************************************************************************)
InHandlerBody == {"try", "respond", "except"}

\* C1: a POST /message that finds the model not loaded is answered 418: it
\* does not enter the try block, does not call Marvin.respond, does not end
\* in an unhandled exception and is not answered 500.
C1_NotReadyIs418 ==
    \A h \in Handlers :
       /\ hpc[h] \in InHandlerBody => hready[h] /\ Marvin # 0
       /\ hcalled[h] => hready[h] /\ Marvin # 0
       /\ (hpc[h] = "done" /\ ~hready[h]) =>
             hstatus[h] = 418 /\ ~hcalled[h] /\ ~hescaped[h]

\* A request answered 418 while ChatBot() is still running on the
\* initialization task.
C1_Witness ==
    \E h \in Handlers :
       /\ hpc[h] = "done"
       /\ hstatus[h] = 418
       /\ ~hcalled[h]
       /\ Marvin = 0
       /\ initPc = "constructing"

\* C2: ChatBot() is called once, by initialize() and by no request handler,
\* whatever the interleaving, and Marvin, once set, keeps its value.
C2_ConstructedOnce ==
    /\ [](/\ constructed <= 1
          /\ constructors \subseteq {"init"}
          /\ initPc # "start" => constructed = 1
          /\ Marvin # 0 => Marvin = 1 /\ initPc = "done")
    /\ [][Marvin # 0 => Marvin' = Marvin]_vars

\* The container runs handlers beside the initialization task, the model
\* is loaded, and a request has been answered by it.
C2_Witness ==
    /\ mode = "imported"
    /\ initPc = "done"
    /\ Marvin = 1
    /\ constructed = 1
    /\ \E h \in Handlers : hstatus[h] = 200

\* C3: at most one handler is inside Marvin.respond at any time.
C3_RespondSerialized == Cardinality({h \in Handlers : hpc[h] = "respond"}) <= 1

\* C9: an error while a request is handled on the loaded model is answered
\* 500 and leaves the service as it was: Marvin stays loaded, so that every
\* request that follows passes line 51, and a well-formed request that
\* passed it is given to Marvin.respond and answered 200.
C9_ErrorsAnswered500 ==
    /\ failures > 0 => Marvin # 0
    /\ \A h \in Handlers :
          /\ hstatus[h] = 500 => hready[h] /\ hpc[h] = "done"
          /\ (hpc[h] = "done" /\ hready[h] /\ hreq[h] = "malformed") =>
                hstatus[h] = 500 /\ hcalled[h]
          /\ (hpc[h] = "done" /\ hready[h] /\ hreq[h] = "good") =>
                hstatus[h] = 200 /\ hcalled[h]

\* Requests come one at a time (the script's server); one was answered 500
\* and a later, well-formed one has been answered 200.
C9_Witness ==
    /\ mode = "main"
    /\ failures > 0
    /\ \E h \in Handlers :
          hpc[h] = "done" /\ hreq[h] = "good" /\ hstatus[h] = 200 /\ hcalled[h]

(***************************************************************************)
(* Claims about create_model (SpecModel)                                   *)
(***************************************************************************)
\* C4: with params.restore_model set, create_model loads parameters from
\* that path and from nowhere else; when the restore fails no parameters are
\* loaded, no model is returned and the call ends by raising.
C4_ExplicitRestoreOnly ==
    restore_model # "" =>
       /\ cmAttempts \subseteq {"restore_model"}
       /\ cmParams \in {"uninitialized", "restore_model"}
       /\ restore_model = "invalid" =>
             /\ cmParams = "uninitialized"
             /\ cmResult # "returned"
             /\ cmPc \notin {"writer", "return"}
             /\ cmPc = "end" => cmResult = "raised"

\* The explicit path is invalid, the checkpoint directory holds a good
\* checkpoint, and create_model has raised.
C4_Witness ==
    /\ restore_model = "invalid"
    /\ train_ckpt = "valid"
    /\ ckpt = "valid"
    /\ cmAttempts = {"restore_model"}
    /\ cmResult = "raised"

(***************************************************************************)
(* Claims about the vocabulary (SpecVocab)                                 *)
(***************************************************************************)
\* C6: once a file exists at vocabulary_path, no call of create_vocabulary,
\* whatever corpus, size or flag it is given, changes that file or the
\* 'complete' file, or reads the corpus.
C6_SecondBuildIsNoOp ==
    [][vocabFile.exists =>
          /\ vocabFile' = vocabFile
          /\ completeFile' = completeFile
          /\ corpusReads' = corpusReads]_vars

\* A call that found the vocabulary in place and whose arguments and corpus
\* would have produced another file; the corpus has been read once.
C6_Witness ==
    /\ cvOutcome = "skipped_other"
    /\ vocabFile.exists
    /\ dataFile.exists
    /\ corpusReads = 1

\* C7: the vocabulary written by create_vocabulary and loaded by
\* initialize_vocabulary has at most max_vocabulary_size entries, its first
\* four entries are _PAD, _GO, _EOS, _UNK, and the loaded mapping gives them
\* the ids 0, 1, 2, 3.
C7_ReservedIdsAndCap ==
    loaded =>
       /\ Len(vocabFile.content) <= cvMax
       /\ Len(rev_vocab) <= cvMax
       /\ Len(vocabFile.content) >= Len(_START_VOCAB)
       /\ SubSeq(vocabFile.content, 1, Len(_START_VOCAB)) = _START_VOCAB
       /\ SubSeq(rev_vocab, 1, Len(_START_VOCAB)) = _START_VOCAB
       /\ Get(vocab, _PAD) = PAD_ID /\ _PAD \in DOMAIN vocab
       /\ Get(vocab, _GO) = GO_ID /\ _GO \in DOMAIN vocab
       /\ Get(vocab, _EOS) = EOS_ID /\ _EOS \in DOMAIN vocab
       /\ Get(vocab, _UNK) = UNK_ID /\ _UNK \in DOMAIN vocab

(***************************************************************************)
(* Claims about the token ids (SpecEncode, SpecIds, SpecRecover)           *)
(***************************************************************************)
\* C8: sentence_to_token_ids gives one id per token of the sentence: the
\* token's own id, which the reverse vocabulary maps back to the token, when
\* the token is in the vocabulary, and UNK_ID when it is not. Stated for the
\* sentences basic_tokenizer splits into words, that is, all but the
\* sentinel of line 32.
C8_RoundTrip ==
    (encArgs.called /\ ~basic_tokenizer(encArgs.sentence).isString) =>
       LET words == basic_tokenizer(encArgs.sentence).items IN
          /\ encResult.kind = "ids"
          /\ Len(encResult.ids) = Len(words)
          /\ \A i \in DOMAIN words :
                IF words[i] \in DOMAIN vocab
                   THEN /\ encResult.ids[i] = vocab[words[i]]
                        /\ rev_vocab[encResult.ids[i] + 1] = words[i]
                   ELSE encResult.ids[i] = UNK_ID

\* C10: data_to_token_ids writes one line per line of the corpus, the ids
\* sentence_to_token_ids gives for that line under the normalize_digits flag
\* data_to_token_ids was called with.
C10_FlagHonoured ==
    idsOutcome \in {"written", "TypeError"} =>
       LET lines == Lines(dataFile.content)
           vocabulary == VocabOf(RevVocabOf(vocabFile.content))
           expected == [i \in DOMAIN lines |->
                           sentence_to_token_ids(lines[i], vocabulary, "None", idsNorm)]
       IN  /\ idsFile.content = expected
           /\ idsFile.exists \/ expected = <<>>

\* What one uninterrupted prepare_data leaves for the corpus.
ExpectedVocab == VocabList(dataFile.content, vocabulary_size, PrepareVocabNormalize)
ExpectedIds ==
    WrittenLines(Lines(dataFile.content), VocabOf(RevVocabOf(ExpectedVocab)),
                 PrepareIdsNormalize)

\* C5: after runs of the builders that were cut short, a builder run to its
\* end leaves the file a single uninterrupted run leaves: create_vocabulary
\* the vocabulary file, data_to_token_ids the token-id file.
C5_ReinvokeSafe ==
    /\ (lastRun.op = "create_vocabulary" /\ ~lastRun.cut) =>
          vocabFile = File(ExpectedVocab)
    /\ (lastRun.op = "data_to_token_ids" /\ ~lastRun.cut /\ vocabFile.exists) =>
          /\ idsFile.content = ExpectedIds
          /\ idsFile.exists \/ ExpectedIds = <<>>

====
